---- MODULE Spec2Model ----
(***************************************************************************)
(* Dataset upload service (backend/services/datasets.py) and job poller    *)
(* (sdk/jobs.py) of lumigator.                                             *)
(*                                                                         *)
(*   SpecSize    validate_file_size: the chunk loop with the size ceiling  *)
(*   SpecFormat  validate_dataset_format / validate_experiment_dataset     *)
(*   SpecPoll    Jobs.wait_for_job: the polling loop                       *)
(*   Spec        DatasetService.upload_dataset / delete_dataset against a  *)
(*               repository and an object store whose calls may fail       *)
(***************************************************************************)
EXTENDS Integers, Sequences, FiniteSets, TLC

VARIABLES
    \* validate_file_size
    input,          \* the chunks the source yields, in arrival order
    max_size,       \* the byte ceiling of the call
    pos,            \* number of chunks read from the source so far
    output,         \* bytes the destination buffer holds
    actual_size,    \* the running total (local actual_size)
    size_pc,        \* "idle" | "loop" | "returned" | "raised"
    size_res,       \* what the call gave back: a return value or an exception
    \* validate_dataset_format
    header,         \* the columns of the file's first row
    decodable,      \* whether the file decodes as text
    format,         \* the DatasetFormat tag of the call
    fmt_pc,         \* "idle" | "call" | "done"
    fmt_res,        \* what the call gave back
    \* Jobs.wait_for_job
    retries,        \* the retries argument
    attempt,        \* the loop variable of range(1, retries); 0 before the loop
    poll_pc,        \* "idle" | "loop" | "sleep" | "done"
    jobinfo,        \* the snapshot of the latest observation
    events,         \* the observations and sleeps of the call, in order
    poll_res,       \* what the call gave back
    \* DatasetService
    repo,           \* ids of the records in the repository
    s3,             \* ids whose content is in long-term storage
    temps,          \* temporary files that exist
    svc_pc,         \* position of the call in flight, "idle" between calls
    call,           \* the locals of the call in flight
    log,            \* the collaborator calls of the latest call, in order
    outcome,        \* how the latest completed call ended
    ncalls,         \* number of calls started
    faulted         \* ids on which a dataset_repo.delete call has raised

sizeVars == <<input, max_size, pos, output, actual_size, size_pc, size_res>>
fmtVars  == <<header, decodable, format, fmt_pc, fmt_res>>
pollVars == <<retries, attempt, poll_pc, jobinfo, events, poll_res>>
svcVars  == <<repo, s3, temps, svc_pc, call, log, outcome, ncalls, faulted>>
vars     == <<sizeVars, fmtVars, pollVars, svcVars>>

None == [kind |-> "none"]

----------------------------------------------------------------------------
(* Bounds *)

MaxChunks   == 3    \* chunks a source yields
MaxChunkLen == 2    \* bytes in one chunk
MaxLimit    == 4    \* largest size ceiling tried
MaxCols     == 3    \* columns in a header row
MaxRetries  == 5    \* largest retries argument tried
MaxCalls    == 3    \* service calls started in one behaviour

Bytes == {0, 1}

RECURSIVE SumLen(_)
SumLen(chunks) ==
    IF chunks = <<>> THEN 0 ELSE Len(Head(chunks)) + SumLen(Tail(chunks))

RECURSIVE Flatten(_)
Flatten(chunks) ==
    IF chunks = <<>> THEN <<>> ELSE Head(chunks) \o Flatten(Tail(chunks))

\* A binary file iterates as its lines: every chunk holds at least one byte.
Chunks  == UNION {[1..n -> Bytes] : n \in 1..MaxChunkLen}
Sources == UNION {[1..n -> Chunks] : n \in 0..MaxChunks}
Limits  == 0..MaxLimit

----------------------------------------------------------------------------
(* validate_file_size *)

\* output.write(chunk): appends the chunk, returns the number of bytes written
Write(buffer, chunk) == [buffer |-> buffer \o chunk, written |-> Len(chunk)]

ExceedsAtLimit(size, limit) == size >= limit

\* the test of the ceiling
Exceeds(size, limit) == size > limit

PayloadTooLarge(limit) ==
    [kind |-> "HTTPException", status_code |-> 413, limit |-> limit]

LoopBodyCheckBeforeWrite(st, chunk, limit) ==
    IF Exceeds(st.actual_size + Len(chunk), limit)
    THEN [st EXCEPT !.actual_size = st.actual_size + Len(chunk),
                    !.exc = PayloadTooLarge(limit)]
    ELSE [st EXCEPT !.actual_size = st.actual_size + Len(chunk),
                    !.output = st.output \o chunk]

\* one round of the loop: write the chunk, add its length, test the ceiling
LoopBody(st, chunk, limit) ==
    LET w    == Write(st.output, chunk)
        size == st.actual_size + w.written
    IN  [actual_size |-> size,
         output      |-> w.buffer,
         exc         |-> IF Exceeds(size, limit) THEN PayloadTooLarge(limit) ELSE None]

\* the whole call on a source: rounds until the source is exhausted or a round raises
RECURSIVE RunLoop(_, _, _)
RunLoop(st, chunks, limit) ==
    IF chunks = <<>> THEN [st EXCEPT !.exc = None]
    ELSE LET nx == LoopBody(st, Head(chunks), limit)
         IN  IF nx.exc # None THEN nx ELSE RunLoop(nx, Tail(chunks), limit)

validate_file_size(chunks, limit) ==
    LET st == RunLoop([actual_size |-> 0, output |-> <<>>, exc |-> None], chunks, limit)
    IN  IF st.exc # None
        THEN [res |-> st.exc, output |-> st.output]
        ELSE [res |-> [kind |-> "return", value |-> st.actual_size], output |-> st.output]

SizeIdle ==
    /\ input = <<>> /\ max_size = 0 /\ pos = 0 /\ output = <<>>
    /\ actual_size = 0 /\ size_pc = "idle" /\ size_res = None

SizeInit ==
    /\ input \in Sources
    /\ max_size \in Limits
    /\ pos = 0
    /\ output = <<>>
    /\ actual_size = 0
    /\ size_pc = "loop"
    /\ size_res = None

\* for chunk in input: ... (one round)
SizeRound ==
    /\ size_pc = "loop"
    /\ pos < Len(input)
    /\ LET nx == LoopBody([actual_size |-> actual_size, output |-> output, exc |-> None],
                          input[pos + 1], max_size)
       IN  /\ pos' = pos + 1
           /\ output' = nx.output
           /\ actual_size' = nx.actual_size
           /\ size_res' = nx.exc
           /\ size_pc' = IF nx.exc # None THEN "raised" ELSE "loop"
    /\ UNCHANGED <<input, max_size>>
    /\ UNCHANGED <<fmtVars, pollVars, svcVars>>

\* return actual_size
SizeReturn ==
    /\ size_pc = "loop"
    /\ pos = Len(input)
    /\ size_pc' = "returned"
    /\ size_res' = [kind |-> "return", value |-> actual_size]
    /\ UNCHANGED <<input, max_size, pos, output, actual_size>>
    /\ UNCHANGED <<fmtVars, pollVars, svcVars>>

----------------------------------------------------------------------------
(* validate_dataset_format, validate_experiment_dataset *)

ALLOWED_EXPERIMENT_FIELDS  == {"examples", "ground_truth"}
REQUIRED_EXPERIMENT_FIELDS == {"examples"}

FieldNames == {"examples", "ground_truth", "extra", "id"}
Headers    == UNION {[1..n -> FieldNames] : n \in 0..MaxCols}
Formats    == {"experiment", "unknown"}

ToSet(s) == {s[k] : k \in 1..Len(s)}

MissingFields(fields) ==
    [kind |-> "HTTPException", status_code |-> 403, error |-> "missing", fields |-> fields]

InvalidFields(fields, allowed) ==
    [kind |-> "HTTPException", status_code |-> 403, error |-> "invalid",
     fields |-> fields, allowed |-> allowed]

ExtraFieldsFirst(columns, text) ==
    IF ~text THEN [kind |-> "UnicodeError"]
    ELSE LET fields         == ToSet(columns)
             missing_fields == REQUIRED_EXPERIMENT_FIELDS \ fields
             extra_fields   == fields \ ALLOWED_EXPERIMENT_FIELDS
         IN  IF extra_fields # {}
             THEN InvalidFields(extra_fields, ALLOWED_EXPERIMENT_FIELDS)
             ELSE IF missing_fields # {} THEN MissingFields(missing_fields) ELSE None

\* columns: the first row the csv reader yields (<<>> for a file without rows);
\* text: whether reading the file decodes.  None stands for a normal return.
validate_experiment_dataset(columns, text) ==
    IF ~text THEN [kind |-> "UnicodeError"]
    ELSE LET fields         == ToSet(columns)
             missing_fields == REQUIRED_EXPERIMENT_FIELDS \ fields
             extra_fields   == fields \ ALLOWED_EXPERIMENT_FIELDS
         IN  IF missing_fields # {} THEN MissingFields(missing_fields)
             ELSE IF extra_fields # {}
                  THEN InvalidFields(extra_fields, ALLOWED_EXPERIMENT_FIELDS)
                  ELSE None

validate_dataset_format(columns, text, fmt) ==
    LET r == IF fmt = "experiment"
             THEN validate_experiment_dataset(columns, text)
             ELSE [kind |-> "ValueError"]
    IN  IF r.kind = "UnicodeError"
        THEN [kind |-> "HTTPException", status_code |-> 422]
        ELSE r

FormatIdle ==
    /\ header = <<>> /\ decodable = TRUE /\ format = "experiment"
    /\ fmt_pc = "idle" /\ fmt_res = None

FormatInit ==
    /\ header \in Headers
    /\ decodable \in BOOLEAN
    /\ format \in Formats
    /\ fmt_pc = "call"
    /\ fmt_res = None

FormatValidate ==
    /\ fmt_pc = "call"
    /\ fmt_res' = validate_dataset_format(header, decodable, format)
    /\ fmt_pc' = "done"
    /\ UNCHANGED <<header, decodable, format>>
    /\ UNCHANGED <<sizeVars, pollVars, svcVars>>

----------------------------------------------------------------------------
(* Jobs.wait_for_job *)

Statuses    == {"PENDING", "RUNNING", "FAILED", "STOPPED", "SUCCEEDED"}
NonTerminal == {"PENDING", "RUNNING"}
Payloads    == {"p1", "p2"}

\* what get_ray_job_response(id).json() can hold: the job system decides it
JobInfos == [status : Statuses, result : Payloads]

JobException(what) == [kind |-> "Exception", error |-> what]

\* range(1, retries)
LoopRange(n) == 1..(n - 1)

OnStatusFailedRetried(info) ==
    IF info.status \in NonTerminal \cup {"FAILED"}
    THEN [pc |-> "sleep", res |-> None]
    ELSE IF info.status = "STOPPED"
         THEN [pc |-> "done", res |-> JobException("stopped")]
         ELSE [pc |-> "done", res |-> [kind |-> "return", value |-> info]]

OnStatusSleepsBeforeReturn(info) ==
    IF info.status \in NonTerminal \cup {"SUCCEEDED"}
    THEN [pc |-> "sleep", res |-> None]
    ELSE IF info.status = "FAILED"
         THEN [pc |-> "done", res |-> JobException("failed")]
         ELSE [pc |-> "done", res |-> JobException("stopped")]

\* the if / elif chain on jobinfo["status"]
OnStatus(info) ==
    IF info.status = "PENDING" \/ info.status = "RUNNING"
    THEN [pc |-> "sleep", res |-> None]
    ELSE IF info.status = "FAILED"
         THEN [pc |-> "done", res |-> JobException("failed")]
         ELSE IF info.status = "STOPPED"
              THEN [pc |-> "done", res |-> JobException("stopped")]
              ELSE [pc |-> "done", res |-> [kind |-> "return", value |-> info]]

PollIdle ==
    /\ retries = 0 /\ attempt = 0 /\ poll_pc = "idle"
    /\ jobinfo = None /\ events = <<>> /\ poll_res = None

PollInit ==
    /\ retries \in 1..MaxRetries
    /\ attempt = 1
    /\ poll_pc = "loop"
    /\ jobinfo = None
    /\ events = <<>>
    /\ poll_res = None

\* one round of the loop up to its await, raise or return
PollObserve ==
    /\ poll_pc = "loop"
    /\ attempt \in LoopRange(retries)
    /\ \E info \in JobInfos :
        LET d == OnStatus(info)
        IN  /\ jobinfo' = info
            /\ events' = Append(events, [ev |-> "get", info |-> info])
            /\ poll_pc' = d.pc
            /\ poll_res' = d.res
    /\ UNCHANGED <<retries, attempt>>
    /\ UNCHANGED <<sizeVars, fmtVars, svcVars>>

\* await asyncio.sleep(poll_wait); continue
PollSleep ==
    /\ poll_pc = "sleep"
    /\ events' = Append(events, [ev |-> "sleep"])
    /\ attempt' = attempt + 1
    /\ poll_pc' = "loop"
    /\ UNCHANGED <<retries, jobinfo, poll_res>>
    /\ UNCHANGED <<sizeVars, fmtVars, svcVars>>

\* the range is exhausted: the raise after the loop
PollExhausted ==
    /\ poll_pc = "loop"
    /\ attempt \notin LoopRange(retries)
    /\ poll_pc' = "done"
    /\ poll_res' = JobException("timeout")
    /\ UNCHANGED <<retries, attempt, jobinfo, events>>
    /\ UNCHANGED <<sizeVars, fmtVars, svcVars>>

----------------------------------------------------------------------------
(* DatasetService *)

Ids == 1..MaxCalls

\* settings.MAX_DATASET_SIZE
MAX_DATASET_SIZE == MaxLimit

Http500   == [kind |-> "HTTPException", status_code |-> 500]
Http404   == [kind |-> "HTTPException", status_code |-> 404]
RepoError == [kind |-> "RepositoryError"]
NoCall    == [op |-> "none", temp |-> 0, format |-> "experiment", size |-> 0,
              record |-> 0, target |-> 0, exc |-> None, repo0 |-> {}, s30 |-> {}]

Entry(name, ok) == [call |-> name, ok |-> ok]

SvcIdle ==
    /\ repo = {} /\ s3 = {} /\ temps = {} /\ faulted = {}
    /\ svc_pc = "idle" /\ call = NoCall /\ log = <<>>
    /\ outcome = None /\ ncalls = 0

\* temp = NamedTemporaryFile(delete=False)
UploadBegin ==
    /\ svc_pc = "idle"
    /\ ncalls < MaxCalls
    /\ ncalls' = ncalls + 1
    /\ \E fmt \in Formats :
        call' = [NoCall EXCEPT !.op = "upload", !.temp = ncalls + 1, !.format = fmt,
                               !.repo0 = repo, !.s30 = s3]
    /\ temps' = temps \cup {ncalls + 1}
    /\ log' = <<>>
    /\ outcome' = None
    /\ svc_pc' = "u_size"
    /\ UNCHANGED <<repo, s3, faulted>>
    /\ UNCHANGED <<sizeVars, fmtVars, pollVars>>

\* with temp as buffer: actual_size = validate_file_size(...)
UploadSize ==
    /\ svc_pc = "u_size"
    /\ \E src \in Sources :
        LET r == validate_file_size(src, MAX_DATASET_SIZE).res
        IN  IF r.kind = "return"
            THEN /\ call' = [call EXCEPT !.size = r.value]
                 /\ log' = Append(log, Entry("validate_file_size", TRUE))
                 /\ svc_pc' = "u_format"
            ELSE /\ call' = [call EXCEPT !.exc = r]
                 /\ log' = Append(log, Entry("validate_file_size", FALSE))
                 /\ svc_pc' = "u_finally"
    /\ UNCHANGED <<repo, s3, temps, faulted, outcome, ncalls>>
    /\ UNCHANGED <<sizeVars, fmtVars, pollVars>>

UploadFormatIgnored ==
    /\ svc_pc = "u_format"
    /\ \E cols \in Headers, text \in BOOLEAN :
        LET r == validate_dataset_format(cols, text, call.format)
        IN  /\ log' = Append(log, Entry("validate_dataset_format", r = None))
            /\ svc_pc' = "u_create"
            /\ call' = call
    /\ UNCHANGED <<repo, s3, temps, faulted, outcome, ncalls>>
    /\ UNCHANGED <<sizeVars, fmtVars, pollVars>>

\* validate_dataset_format(temp.name, format)
UploadFormat ==
    /\ svc_pc = "u_format"
    /\ \E cols \in Headers, text \in BOOLEAN :
        LET r == validate_dataset_format(cols, text, call.format)
        IN  IF r = None
            THEN /\ log' = Append(log, Entry("validate_dataset_format", TRUE))
                 /\ svc_pc' = "u_create"
                 /\ call' = call
            ELSE /\ log' = Append(log, Entry("validate_dataset_format", FALSE))
                 /\ svc_pc' = "u_finally"
                 /\ call' = [call EXCEPT !.exc = r]
    /\ UNCHANGED <<repo, s3, temps, faulted, outcome, ncalls>>
    /\ UNCHANGED <<sizeVars, fmtVars, pollVars>>

\* record = self.dataset_repo.create(...); the call may raise
UploadCreate ==
    /\ svc_pc = "u_create"
    /\ \/ /\ repo' = repo \cup {call.temp}
          /\ call' = [call EXCEPT !.record = call.temp]
          /\ log' = Append(log, Entry("repo.create", TRUE))
          /\ svc_pc' = "u_save"
       \/ /\ repo' = repo
          /\ call' = [call EXCEPT !.exc = RepoError]
          /\ log' = Append(log, Entry("repo.create", FALSE))
          /\ svc_pc' = "u_finally"
    /\ UNCHANGED <<s3, temps, faulted, outcome, ncalls>>
    /\ UNCHANGED <<sizeVars, fmtVars, pollVars>>

\* _save_dataset_to_s3, the try block: load_dataset and save_to_disk; either may raise
UploadSave ==
    /\ svc_pc = "u_save"
    /\ \/ /\ s3' = s3 \cup {call.record}
          /\ log' = Append(log, Entry("s3.save", TRUE))
          /\ svc_pc' = "u_finally"
       \/ /\ s3' = s3
          /\ log' = Append(log, Entry("s3.save", FALSE))
          /\ svc_pc' = "u_except"
    /\ UNCHANGED <<repo, temps, faulted, call, outcome, ncalls>>
    /\ UNCHANGED <<sizeVars, fmtVars, pollVars>>

UploadRollbackSkipped ==
    /\ svc_pc = "u_except"
    /\ call' = [call EXCEPT !.exc = Http500]
    /\ svc_pc' = "u_finally"
    /\ UNCHANGED <<repo, s3, temps, faulted, log, outcome, ncalls>>
    /\ UNCHANGED <<sizeVars, fmtVars, pollVars>>

\* _save_dataset_to_s3, the except block: delete the record, then raise the 500;
\* a delete that raises leaves the block with its own exception
UploadRollback ==
    /\ svc_pc = "u_except"
    /\ \/ /\ repo' = repo \ {call.record}
          /\ faulted' = faulted
          /\ log' = Append(log, Entry("repo.delete", TRUE))
          /\ call' = [call EXCEPT !.exc = Http500]
       \/ /\ repo' = repo
          /\ faulted' = faulted \cup {call.record}
          /\ log' = Append(log, Entry("repo.delete", FALSE))
          /\ call' = [call EXCEPT !.exc = RepoError]
    /\ svc_pc' = "u_finally"
    /\ UNCHANGED <<s3, temps, outcome, ncalls>>
    /\ UNCHANGED <<sizeVars, fmtVars, pollVars>>

UploadFinallyOnSuccessOnly ==
    /\ svc_pc = "u_finally"
    /\ temps' = IF call.exc = None THEN temps \ {call.temp} ELSE temps
    /\ log' = Append(log, Entry("temp.unlink", call.exc = None))
    /\ outcome' = IF call.exc = None
                  THEN [kind |-> "return", value |-> call.record]
                  ELSE call.exc
    /\ svc_pc' = "idle"
    /\ UNCHANGED <<repo, s3, faulted, call, ncalls>>
    /\ UNCHANGED <<sizeVars, fmtVars, pollVars>>

\* finally: Path(temp.name).unlink(); then the return, or the pending exception
UploadFinally ==
    /\ svc_pc = "u_finally"
    /\ temps' = temps \ {call.temp}
    /\ log' = Append(log, Entry("temp.unlink", TRUE))
    /\ outcome' = IF call.exc = None
                  THEN [kind |-> "return", value |-> call.record]
                  ELSE call.exc
    /\ svc_pc' = "idle"
    /\ UNCHANGED <<repo, s3, faulted, call, ncalls>>
    /\ UNCHANGED <<sizeVars, fmtVars, pollVars>>

\* delete_dataset: record = self._get_dataset_record(dataset_id)
DeleteBegin ==
    /\ svc_pc = "idle"
    /\ ncalls < MaxCalls
    /\ ncalls' = ncalls + 1
    /\ \E id \in Ids :
        /\ call' = [NoCall EXCEPT !.op = "delete", !.target = id,
                                  !.repo0 = repo, !.s30 = s3]
        /\ IF id \in repo
           THEN /\ log' = <<Entry("repo.get", TRUE)>>
                /\ outcome' = None
                /\ svc_pc' = "d_rm"
           ELSE /\ log' = <<Entry("repo.get", FALSE)>>
                /\ outcome' = Http404
                /\ svc_pc' = "idle"
    /\ UNCHANGED <<repo, s3, temps, faulted>>
    /\ UNCHANGED <<sizeVars, fmtVars, pollVars>>

DeleteRmFailureIgnored ==
    /\ svc_pc = "d_rm"
    /\ \/ /\ s3' = s3 \ {call.target}
          /\ log' = Append(log, Entry("s3.rm", TRUE))
       \/ /\ s3' = s3
          /\ log' = Append(log, Entry("s3.rm", FALSE))
    /\ svc_pc' = "d_record"
    /\ outcome' = outcome
    /\ UNCHANGED <<repo, temps, faulted, call, ncalls>>
    /\ UNCHANGED <<sizeVars, fmtVars, pollVars>>

\* self.s3_filesystem.rm(dataset_path, recursive=True); a raise goes to the except
DeleteRm ==
    /\ svc_pc = "d_rm"
    /\ \/ /\ s3' = s3 \ {call.target}
          /\ log' = Append(log, Entry("s3.rm", TRUE))
          /\ svc_pc' = "d_record"
          /\ outcome' = outcome
       \/ /\ s3' = s3
          /\ log' = Append(log, Entry("s3.rm", FALSE))
          /\ svc_pc' = "idle"
          /\ outcome' = Http500
    /\ UNCHANGED <<repo, temps, faulted, call, ncalls>>
    /\ UNCHANGED <<sizeVars, fmtVars, pollVars>>

\* self.dataset_repo.delete(record.id); a raise goes to the except
DeleteRecord ==
    /\ svc_pc = "d_record"
    /\ \/ /\ repo' = repo \ {call.target}
          /\ faulted' = faulted
          /\ log' = Append(log, Entry("repo.delete", TRUE))
          /\ outcome' = [kind |-> "return", value |-> 0]
       \/ /\ repo' = repo
          /\ faulted' = faulted \cup {call.target}
          /\ log' = Append(log, Entry("repo.delete", FALSE))
          /\ outcome' = Http500
    /\ svc_pc' = "idle"
    /\ UNCHANGED <<s3, temps, call, ncalls>>
    /\ UNCHANGED <<sizeVars, fmtVars, pollVars>>

----------------------------------------------------------------------------
(* Specifications *)

SizeNext   == SizeRound \/ SizeReturn
FormatNext == FormatValidate
PollNext   == PollObserve \/ PollSleep \/ PollExhausted

Init == SizeIdle /\ FormatIdle /\ PollIdle /\ SvcIdle

Next ==
    \/ UploadBegin \/ UploadSize \/ UploadFormat \/ UploadCreate \/ UploadSave
    \/ UploadRollback \/ UploadFinally
    \/ DeleteBegin \/ DeleteRm \/ DeleteRecord

InitSize   == SizeInit /\ FormatIdle /\ PollIdle /\ SvcIdle
InitFormat == SizeIdle /\ FormatInit /\ PollIdle /\ SvcIdle
InitPoll   == SizeIdle /\ FormatIdle /\ PollInit /\ SvcIdle

Spec       == Init /\ [][Next]_vars
SpecSize   == InitSize /\ [][SizeNext]_vars
SpecFormat == InitFormat /\ [][FormatNext]_vars
SpecPoll   == InitPoll /\ [][PollNext]_vars

----------------------------------------------------------------------------
(* Properties of validate_file_size, checked under SpecSize *)

Prefix(chunks, k) == SubSeq(chunks, 1, k)

\* the chunk whose write first brings the total above the limit
OverflowIndex(chunks, limit) ==
    CHOOSE k \in 1..Len(chunks) :
        /\ SumLen(Prefix(chunks, k)) > limit
        /\ \A j \in 1..(k - 1) : SumLen(Prefix(chunks, j)) <= limit

\* C1: a source whose total length exceeds the limit ends in the 413 failure right
\* after the write of the first chunk that brings the total above the limit: no
\* chunk after that one is read or written, the destination holds the chunks up to
\* and including it, and no byte count is returned.
C1_OverflowAbortsAtFirstExceedingChunk ==
    SumLen(input) > max_size =>
        LET k == OverflowIndex(input, max_size)
        IN  /\ pos <= k
            /\ output = Flatten(Prefix(input, pos))
            /\ size_pc # "returned"
            /\ size_res.kind # "return"
            /\ (size_pc = "raised") <=> (pos = k)
            /\ size_pc = "raised" =>
                  /\ size_res = [kind |-> "HTTPException", status_code |-> 413,
                                 limit |-> max_size]
                  /\ output = Flatten(Prefix(input, k))
                  /\ ~ ENABLED SizeNext

C1_Witness ==
    /\ size_pc = "raised"
    /\ pos >= 2
    /\ pos < Len(input)
    /\ Len(output) > max_size

\* C2: a source whose total length is at most the limit (the empty source and a
\* total equal to the limit included) never fails, has every chunk written in
\* arrival order, and returns the total number of bytes; a returned value never
\* exceeds the limit.
C2_WithinLimitReturnsTotal ==
    /\ SumLen(input) <= max_size =>
          /\ size_pc # "raised"
          /\ output = Flatten(Prefix(input, pos))
          /\ size_pc = "returned" =>
                /\ pos = Len(input)
                /\ output = Flatten(input)
                /\ size_res = [kind |-> "return", value |-> SumLen(input)]
                /\ Len(output) = size_res.value
    /\ size_pc = "returned" => size_res.value <= max_size

C2_Witness ==
    /\ size_pc = "returned"
    /\ Len(input) >= 2
    /\ SumLen(input) = max_size
    /\ size_res.value = max_size

----------------------------------------------------------------------------
(* Properties of validate_experiment_dataset, checked under SpecFormat *)

Columns == {header[k] : k \in DOMAIN header}

\* C9: for a header that decodes, the "experiment" check fails with the 403
\* missing-fields failure listing exactly {examples} minus the header when that is
\* non-empty; otherwise with the 403 invalid-fields failure listing exactly the
\* header minus {examples, ground_truth} when that is non-empty; otherwise it
\* succeeds.  Missing fields take precedence; the empty header is missing fields.
C9_ExperimentFieldCheck ==
    (fmt_pc = "done" /\ format = "experiment" /\ decodable) =>
        LET missing == {"examples"} \ Columns
            extra   == Columns \ {"examples", "ground_truth"}
        IN  IF missing # {}
            THEN /\ fmt_res.kind = "HTTPException"
                 /\ fmt_res.status_code = 403
                 /\ fmt_res.error = "missing"
                 /\ fmt_res.fields = missing
            ELSE IF extra # {}
                 THEN /\ fmt_res.kind = "HTTPException"
                      /\ fmt_res.status_code = 403
                      /\ fmt_res.error = "invalid"
                      /\ fmt_res.fields = extra
                      /\ fmt_res.allowed = {"examples", "ground_truth"}
                 ELSE fmt_res = [kind |-> "none"]

C9_Witness ==
    /\ fmt_pc = "done" /\ format = "experiment" /\ decodable
    /\ "examples" \notin Columns
    /\ "extra" \in Columns
    /\ fmt_res.error = "missing"

----------------------------------------------------------------------------
(* Properties of wait_for_job, checked under SpecPoll *)

Gets(evs)   == {j \in 1..Len(evs) : evs[j].ev = "get"}
Sleeps(evs) == {j \in 1..Len(evs) : evs[j].ev = "sleep"}
WaitingGets(evs) ==
    {j \in Gets(evs) : evs[j].info.status \in {"PENDING", "RUNNING"}}
GotStatus(evs, j, st) == evs[j].ev = "get" /\ evs[j].info.status = st

\* C3: a call whose observations are all non-terminal ends in the timeout failure
\* after exactly `retries` observations.
C3_TimeoutAfterRetriesObservations ==
    (poll_pc = "done" /\ poll_res = [kind |-> "Exception", error |-> "timeout"]) =>
        Cardinality(Gets(events)) = retries

\* C4: an observation of FAILED (STOPPED) ends the call at once with the failed
\* (stopped) failure: it is the last event of the call, no observation and no sleep
\* follows it, also when attempts remain; FAILED first seen on observation k means
\* exactly k observations, each earlier one followed by one sleep.
C4_FailedOrStoppedEndsCall ==
    \A j \in 1..Len(events) :
        \A st \in {"FAILED", "STOPPED"} :
            GotStatus(events, j, st) =>
                /\ j = Len(events)
                /\ poll_pc = "done"
                /\ poll_res = [kind |-> "Exception",
                               error |-> IF st = "FAILED" THEN "failed" ELSE "stopped"]
                /\ Cardinality(Sleeps(events)) = Cardinality(Gets(events)) - 1
                /\ WaitingGets(events) = Gets(events) \ {j}
                /\ ~ ENABLED PollNext

C4_Witness ==
    /\ poll_pc = "done"
    /\ poll_res = [kind |-> "Exception", error |-> "failed"]
    /\ Cardinality(Gets(events)) = 2
    /\ attempt + 1 \in LoopRange(retries)

\* C5: an observation of SUCCEEDED returns that observation's snapshot at once: it
\* is the last event of the call, no sleep and no observation follows it, and the
\* sleeps of the call are as many as the non-terminal observations before it
\* (none when SUCCEEDED is the first observation).
C5_SucceededReturnsAtOnce ==
    \A j \in 1..Len(events) :
        GotStatus(events, j, "SUCCEEDED") =>
            /\ j = Len(events)
            /\ poll_pc = "done"
            /\ poll_res = [kind |-> "return", value |-> events[j].info]
            /\ Cardinality(Sleeps(events)) = Cardinality(WaitingGets(events))
            /\ Cardinality(WaitingGets(events)) = Cardinality(Gets(events)) - 1
            /\ j = 1 => Sleeps(events) = {}
            /\ ~ ENABLED PollNext

C5_Witness ==
    /\ poll_pc = "done"
    /\ poll_res.kind = "return"
    /\ poll_res.value.status = "SUCCEEDED"
    /\ Cardinality(Sleeps(events)) = 2
    /\ attempt + 1 \in LoopRange(retries)

----------------------------------------------------------------------------
(* Properties of DatasetService, checked under Spec *)

Has(name, ok)  == \E k \in 1..Len(log) : log[k] = [call |-> name, ok |-> ok]
Called(name)   == Has(name, TRUE) \/ Has(name, FALSE)
Index(name)    == CHOOSE k \in 1..Len(log) : log[k].call = name
UploadEnded    == svc_pc = "idle" /\ call.op = "upload"
DeleteEnded    == svc_pc = "idle" /\ call.op = "delete"

\* C6 as stated: an upload whose storage write failed ends with the 500 failure and
\* no record of that upload in the repository.
C6_NoRecordAfterFailedStorageWrite ==
    (UploadEnded /\ Has("s3.save", FALSE)) =>
        /\ outcome = [kind |-> "HTTPException", status_code |-> 500]
        /\ call.record \notin repo

\* C6 amended: when the storage write fails after the record was created, the
\* repository delete of that record is called next, before anything is reported.
\* If the delete succeeds the call ends with the 500 failure and no record of the
\* upload remains; if the delete itself raises, its exception is what the call ends
\* with and the record remains.
C6_RollbackCalledBeforeReport ==
    /\ (svc_pc = "u_finally" /\ Has("s3.save", FALSE)) =>
          /\ Called("repo.delete")
          /\ Index("repo.delete") = Index("s3.save") + 1
    /\ (UploadEnded /\ Has("s3.save", FALSE)) =>
          /\ Has("repo.create", TRUE)
          /\ Index("repo.delete") = Index("s3.save") + 1
          /\ Index("repo.delete") < Len(log)
          /\ Has("repo.delete", TRUE) =>
                /\ outcome = [kind |-> "HTTPException", status_code |-> 500]
                /\ call.record \notin repo
          /\ Has("repo.delete", FALSE) =>
                /\ outcome = [kind |-> "RepositoryError"]
                /\ call.record \in repo
          /\ outcome = [kind |-> "HTTPException", status_code |-> 500]
                => call.record \notin repo

C6_Witness ==
    /\ UploadEnded
    /\ Has("s3.save", FALSE)
    /\ Has("repo.delete", TRUE)
    /\ call.record # 0
    /\ call.record \notin repo
    /\ outcome = [kind |-> "HTTPException", status_code |-> 500]

\* C7: when an upload call has ended, on whatever path, the temporary file it
\* created is gone; between calls no temporary file exists.
C7_TempFileDeletedOnEveryExit ==
    /\ svc_pc = "idle" => temps = {}
    /\ UploadEnded =>
          /\ call.temp \notin temps
          /\ log[Len(log)] = [call |-> "temp.unlink", ok |-> TRUE]

C7_Witness ==
    /\ UploadEnded
    /\ Has("s3.save", FALSE)
    /\ Has("repo.delete", FALSE)
    /\ outcome = [kind |-> "RepositoryError"]
    /\ call.temp \notin temps

C7_WitnessSize    == UploadEnded /\ Has("validate_file_size", FALSE)
C7_WitnessFormat  == UploadEnded /\ Has("validate_dataset_format", FALSE)
C7_WitnessCreate  == UploadEnded /\ Has("repo.create", FALSE)
C7_WitnessSuccess == UploadEnded /\ outcome.kind = "return"

Rank(name) ==
    CASE name = "validate_file_size"      -> 1
      [] name = "validate_dataset_format" -> 2
      [] name = "repo.create"             -> 3
      [] name = "s3.save"                 -> 4
      [] name = "repo.delete"             -> 5
      [] name = "temp.unlink"             -> 6

\* C8: an upload runs size check, format check, repository create, storage write in
\* that order, each only after the one before it succeeded; when the size check or
\* the format check fails, neither the repository create nor the storage write is
\* called and the repository and the storage are as the call found them.
C8_ValidationFailureAbortsUpload ==
    (call.op = "upload") =>
        /\ \A a, b \in 1..Len(log) : a < b => Rank(log[a].call) < Rank(log[b].call)
        /\ Called("validate_dataset_format") => Has("validate_file_size", TRUE)
        /\ Called("repo.create") => Has("validate_dataset_format", TRUE)
        /\ Called("s3.save") => Has("repo.create", TRUE)
        /\ (Has("validate_file_size", FALSE) \/ Has("validate_dataset_format", FALSE)) =>
              /\ ~ Called("repo.create")
              /\ ~ Called("s3.save")
              /\ repo = call.repo0
              /\ s3 = call.s30
              /\ svc_pc = "idle" => outcome.kind \in {"HTTPException", "ValueError"}

C8_Witness ==
    /\ UploadEnded
    /\ Has("validate_file_size", TRUE)
    /\ Has("validate_dataset_format", FALSE)
    /\ outcome = [kind |-> "HTTPException", status_code |-> 403, error |-> "missing",
                  fields |-> {"examples"}]
    /\ repo # {}

C8_WitnessSize ==
    /\ UploadEnded
    /\ outcome = [kind |-> "HTTPException", status_code |-> 413, limit |-> MAX_DATASET_SIZE]
    /\ Len(log) = 2

\* C10 as stated: between calls every record in the repository has its content in
\* long-term storage.
C10_EveryRecordHasContent ==
    svc_pc = "idle" => repo \subseteq s3

\* C10 amended: between calls, a record in the repository whose content is not in
\* long-term storage is a record on which a repository delete call has raised (in
\* delete_dataset after the content was removed, or in the rollback of an upload);
\* delete_dataset removes the stored content first and the record second, and a
\* storage delete that raises ends the call with the record and the content as the
\* call found them.
C10_OrphanRecordOnlyAfterFailedRepoDelete ==
    /\ svc_pc = "idle" => (repo \ s3) \subseteq faulted
    /\ (call.op = "delete" /\ Called("repo.delete")) =>
          /\ Has("s3.rm", TRUE)
          /\ Index("s3.rm") < Index("repo.delete")
          /\ call.target \notin s3
    /\ (call.op = "delete" /\ Has("s3.rm", FALSE)) =>
          /\ svc_pc = "idle"
          /\ ~ Called("repo.delete")
          /\ call.target \in repo
          /\ repo = call.repo0
          /\ s3 = call.s30
          /\ outcome = [kind |-> "HTTPException", status_code |-> 500]

C10_Witness ==
    /\ DeleteEnded
    /\ Has("s3.rm", FALSE)
    /\ call.target \in repo
    /\ call.target \in s3

C10_WitnessOrphan ==
    /\ DeleteEnded
    /\ Has("s3.rm", TRUE)
    /\ Has("repo.delete", FALSE)
    /\ call.target \in repo \ s3

====
